---- MODULE Spec2Model ----
(***************************************************************************)
(* Model of photo-organizer.py: organize_photos and the helpers it calls   *)
(* (get_exif_datetime, parse_datetime, compute_file_hash, optimize_image)  *)
(* together with the SIGINT handler that sets stop_processing.             *)
(*                                                                         *)
(* The file system is a function from <<directory, name>> to a file        *)
(* record.  Directories are absolute paths written as sequences of         *)
(* characters, so that str.startswith is a prefix test on them.            *)
(***************************************************************************)
EXTENDS Integers, Sequences, FiniteSets, TLC

(***************************************************************************)
(* Bounds of the model.                                                    *)
(***************************************************************************)
NumContents == 2      \* distinct original byte contents 1..NumContents
NumDates == 2         \* distinct capture months 1..NumDates

Contents == 1..NumContents
Dates == 1..NumDates

(***************************************************************************)
(* Program constants.                                                      *)
(***************************************************************************)
SUPPORTED_EXTENSIONS == {".jpg", ".jpeg", ".png", ".heic", ".tif", ".tiff", ".nef", ".cr2", ".arw"}
OPTIMIZABLE_FORMATS == {".jpg", ".jpeg", ".png"}
DateTags == {"DateTimeOriginal", "DateTimeDigitized", "DateTime"}

(***************************************************************************)
(* Values of an EXIF tag and of a modification time.  A date d in Dates    *)
(* stands for a text "YYYY:MM:DD HH:MM:SS" of month d; BadText is a str    *)
(* that matches none of the three formats; NotText is a value that is not  *)
(* a str (int, bytes, tuple), on which datetime.strptime raises TypeError. *)
(* OutOfRange is an mtime on which datetime.fromtimestamp raises           *)
(* ValueError.                                                             *)
(***************************************************************************)
BadText == 0
NotText == -1
OutOfRange == 0
RaisedValueError == -2
RaisedTypeError == -3
ParsedNone == -4

\* parse_datetime(value): the parsed date, None, or TypeError escaping
\* (strptime raises TypeError for a non-str argument; only ValueError is caught)
parse_datetime(value) ==
    IF value = NotText THEN RaisedTypeError
    ELSE IF value \in Dates THEN value
    ELSE ParsedNone

\* the loop of get_exif_datetime over exif_data.items(), in stored order
RECURSIVE ScanTags(_)
ScanTags(tags) ==
    IF tags = <<>> THEN ParsedNone
    ELSE LET tag == Head(tags)[1]
             value == Head(tags)[2]
         IN IF tag \in DateTags
            THEN LET parsed_date == parse_datetime(value)
                 IN IF parsed_date = ParsedNone THEN ScanTags(Tail(tags))
                    ELSE parsed_date
            ELSE ScanTags(Tail(tags))

\* datetime.fromtimestamp(os.path.getmtime(path))
FromMtime(mtime) == IF mtime = OutOfRange THEN RaisedValueError ELSE mtime

\* get_exif_datetime(path) on the file record f: a date of Dates, or the
\* exception that escapes.  Image.open fails with OSError or
\* UnidentifiedImageError on a file that cannot be read or is not an image.
get_exif_datetime(f) ==
    IF ~f.readable \/ ~f.image THEN FromMtime(f.mtime)
    ELSE LET r == ScanTags(f.tags)
         IN IF r = ParsedNone THEN FromMtime(f.mtime) ELSE r

(***************************************************************************)
(* Paths.                                                                  *)
(***************************************************************************)
Join(dir, comp) == dir \o <<"/">> \o comp

\* str.startswith
StartsWith(s, p) == Len(p) <= Len(s) /\ SubSeq(s, 1, Len(p)) = p

RECURSIVE LastSlash(_)
LastSlash(p) == IF p = <<>> THEN 0
                ELSE IF p[Len(p)] = "/" THEN Len(p)
                ELSE LastSlash(SubSeq(p, 1, Len(p) - 1))

Parent(p) == SubSeq(p, 1, LastSlash(p) - 1)

\* every order in which os.walk can list the entries S of one directory
Orders(S) == {s \in [1..Cardinality(S) -> S] : \A i, j \in DOMAIN s : i # j => s[i] # s[j]}

SrcRoot == <<"/", "a">>
SubB == <<"/", "a", "/", "b">>
SubBC == <<"/", "a", "/", "b", "c">>
MissingSrc == <<"/", "m">>
DestOut == <<"/", "d">>
DestIn == <<"/", "a", "/", "d">>

\* date_taken.strftime("%Y/%m"): one year and one month directory per date
YearStr(d) == <<"2021", "2022", "2023", "2024">>[d]
MonthStr(d) == <<"01", "02", "03", "04">>[d]
YearDir(dest, d) == Join(dest, <<YearStr(d)>>)
Bucket(dest, d) == Join(YearDir(dest, d), <<MonthStr(d)>>)

(***************************************************************************)
(* File names: base, number of "_copy" suffixes closing the base, and      *)
(* extension, so that os.path.splitext and base + "_copy" + ext are exact. *)
(***************************************************************************)
Name(base, n, ext) == [base |-> base, n |-> n, ext |-> ext]

\* str.lower on an extension
Lower(ext) == CASE ext = ".JPG" -> ".jpg"
                [] ext = ".NEF" -> ".nef"
                [] OTHER -> ext

\* f.lower().endswith(SUPPORTED_EXTENSIONS)
IsImageName(nm) == Lower(nm.ext) \in SUPPORTED_EXTENSIONS

\* dest_file.lower().endswith(OPTIMIZABLE_FORMATS)
IsOptimizable(nm) == Lower(nm.ext) \in OPTIMIZABLE_FORMATS

\* base, ext = os.path.splitext(file); base + "_copy" + ext
CopyName(nm) == [nm EXCEPT !.n = @ + 1]

(***************************************************************************)
(* File records.  content > 0 is an original content, -c is content c      *)
(* re-encoded by the optimizer, Partial is what an interrupted write       *)
(* leaves.  broken marks a dangling symbolic link: os.walk lists it, but   *)
(* os.path.getsize and open raise on it.                                   *)
(***************************************************************************)
Partial == 0
OrigSize == 2
NowDate == NumDates

\* compute_file_hash: the digest of the content, or None
HashNone == <<>>
compute_file_hash(f) == IF f.readable /\ ~f.broken THEN <<f.content>> ELSE HashNone

FileRec(c, sz, rd, br, img, tg, mt) ==
    [content |-> c, size |-> sz, readable |-> rd, broken |-> br, image |-> img,
     tags |-> tg, mtime |-> mt]

\* what a write that stops half way leaves at its target
PartialOf(f) == FileRec(Partial, 0, TRUE, FALSE, FALSE, <<>>, NowDate)

\* what img.save writes: the pixels re-encoded, no EXIF block, a new mtime
Reencoded(f, sz) ==
    FileRec(IF f.content > 0 THEN 0 - f.content ELSE f.content, sz, TRUE, FALSE, TRUE, <<>>, NowDate)

Put(files_, p, v) == [q \in DOMAIN files_ \cup {p} |-> IF q = p THEN v ELSE files_[q]]
Del(files_, p) == [q \in DOMAIN files_ \ {p} |-> files_[q]]

VARIABLES
    source_dirs, dest_dir, exclude_dirs, move_files, optimize,  \* arguments of organize_photos
    fs, dirs, temps,      \* files, directories, "<path>.opt" files left on disk
    stop_processing,      \* the global flag
    pc, src_i, stack, root, files,   \* position of organize_photos
    total_folders, processed_folders, total_files, total_new_files,
    total_skipped_files, total_renamed_files, total_size,
    reported,             \* number of final reports printed
    hist, fs0, sig_at     \* history: one entry per file started, the files before the run,
                          \* Len(hist), pc and processed_folders when SIGINT first arrived

config == <<source_dirs, dest_dir, move_files, optimize, fs0>>
disk == <<fs, dirs, temps>>
counters == <<total_folders, processed_folders, total_files, total_new_files,
              total_skipped_files, total_renamed_files, total_size>>
position == <<pc, src_i, stack, root, files>>
vars == <<config, exclude_dirs, disk, stop_processing, position, counters, reported, hist, sig_at>>

Terminal == {"done", "returned", "crashed"}

\* os.path.abspath on an argument: a trailing separator is dropped
Abspath(p) == IF Len(p) > 1 /\ p[Len(p)] = "/" THEN SubSeq(p, 1, Len(p) - 1) ELSE p

\* any(os.path.abspath(root).startswith(ex) for ex in exclude_dirs)
Excluded(exs, d) == \E ex \in exs : StartsWith(Abspath(d), ex)

\* the directories os.walk(top) visits: top and everything beneath it
Subtree(ds, top) == {d \in ds : d = top \/ StartsWith(d, top \o <<"/">>)}
Children(ds, d) == {x \in ds : x # d /\ Parent(x) = d}

RECURSIVE SumSeq(_)
SumSeq(s) == IF s = <<>> THEN 0 ELSE Head(s) + SumSeq(Tail(s))

\* the scanning pass, lines 74-79
CountFolders(ds, exs) ==
    SumSeq([i \in 1..Len(source_dirs) |->
              Cardinality({d \in Subtree(ds, source_dirs[i]) : ~Excluded(exs, d)})])

\* a move that unlinks the source before the copy is known to have succeeded
TransferUnlinksFirst(files_, src, dst, move) ==
    LET f == files_[src]
        copied == Put(files_, dst, f)
    IN  {[ok |-> TRUE, fs |-> IF move THEN Del(copied, src) ELSE copied],
         [ok |-> FALSE, fs |-> IF move THEN Del(files_, src) ELSE files_]}

(***************************************************************************)
(* shutil.copy2 / shutil.move of src to dst (lines 145-148): every result  *)
(* the call can have.  ok is FALSE when it raised.  A copy needs the       *)
(* source to be readable; a move renames, and falls back to copy + unlink  *)
(* across devices.  A call that raised may have left nothing, a partial    *)
(* file, or a complete file (copystat or unlink raised) at dst; the source *)
(* is removed only by a move that returned.  An existing dst is replaced.  *)
(***************************************************************************)
TransferOutcomes(files_, src, dst, move) ==
    LET f == files_[src]
        copied == Put(files_, dst, f)
    IN  (IF move \/ f.readable
         THEN {[ok |-> TRUE, fs |-> IF move THEN Del(copied, src) ELSE copied]}
         ELSE {})
        \cup {[ok |-> FALSE, fs |-> files_]}
        \cup (IF f.readable
              THEN {[ok |-> FALSE, fs |-> Put(files_, dst, PartialOf(f))],
                    [ok |-> FALSE, fs |-> copied]}
              ELSE {})

\* the temporary file replaces the image whatever the two sizes are
optimize_image_replaces_always(files_, temps_, image_path) ==
    LET f == files_[image_path]
    IN  {<<files_, temps_>>}
        \cup (IF f.readable /\ f.image
              THEN {<<Put(files_, image_path, Reencoded(f, sz)), temps_ \ {image_path}>>
                    : sz \in 1..(OrigSize + 1)}
              ELSE {})

(***************************************************************************)
(* optimize_image(image_path), lines 167-181: every <<files, temps>> it    *)
(* can leave.  Image.open or img.save may raise (with or without the       *)
(* temporary file on disk); otherwise the temporary file of some size      *)
(* replaces the image when strictly smaller and is removed when not.       *)
(***************************************************************************)
optimize_image(files_, temps_, image_path) ==
    LET f == files_[image_path]
    IN  {<<files_, temps_>>}
        \cup (IF f.readable /\ f.image
              THEN {<<files_, temps_ \cup {image_path}>>}
                   \cup {IF sz < f.size
                         THEN <<Put(files_, image_path, Reencoded(f, sz)), temps_ \ {image_path}>>
                         ELSE <<files_, temps_ \ {image_path}>> : sz \in 1..(OrigSize + 1)}
              ELSE {})

\* a comparison that never finds the two files equal
DecideNeverEqual(src_hash, dest_hash) == "RenameTo"

\* line 136: src_hash == dest_hash
Decide(src_hash, dest_hash) == IF src_hash = dest_hash THEN "Skip" ELSE "RenameTo"

\* os.makedirs(dest_path, exist_ok=True), line 128: it may raise (permissions, a
\* file in the way, disk full) only when the bucket directory is not there yet
MakedirsMayRaise(d) == Bucket(dest_dir, d) \notin dirs

\* an except clause that lets the error end the run
OnTransferErrorAbort == "crashed"

\* lines 154-155: the error is printed and the loop goes on to the next file
OnTransferError == "file"

Out(npc, nfs, ndirs, ntemps, dsize, dnew, dskip, dren, entry) ==
    [pc |-> npc, fs |-> nfs, dirs |-> ndirs, temps |-> ntemps, size |-> dsize,
     new |-> dnew, skip |-> dskip, ren |-> dren, entry |-> entry]

\* date is what get_exif_datetime gave for the file (ParsedNone: not called)
Entry(src, decision, dest, ok, occupied, sh, dh, date) ==
    [src |-> src, decision |-> decision, dest |-> dest, ok |-> ok,
     occupied |-> occupied, src_hash |-> sh, dest_hash |-> dh, date |-> date]

\* total_new_files incremented before the transfer is tried
CountNewBeforeTransfer(ok) == 1

\* line 150: total_new_files += 1 is reached only when the transfer returned
CountNew(ok) == IF ok THEN 1 ELSE 0

\* lines 130-155 for one file whose date resolved and whose bucket exists
PlaceOutcomes(file, f, dest_path, ndirs) ==
    LET full_path == <<root, file>>
        candidate == <<dest_path, file>>
        occupied == candidate \in DOMAIN fs
        src_hash == compute_file_hash(f)
        dest_hash == IF occupied THEN compute_file_hash(fs[candidate]) ELSE HashNone
        decision == IF occupied THEN Decide(src_hash, dest_hash) ELSE "New"
        dest_file == IF decision = "RenameTo" THEN <<dest_path, CopyName(file)>> ELSE candidate
        ren == IF decision = "RenameTo" THEN 1 ELSE 0
        E(ok) == Entry(full_path, decision, dest_file, ok, occupied, src_hash, dest_hash,
                       get_exif_datetime(f))
    IN  IF decision = "Skip"
        THEN {Out("file", fs, ndirs, temps, f.size, 0, 1, 0, E(FALSE))}
        ELSE UNION {
               IF t.ok
               THEN IF optimize /\ IsOptimizable(dest_file[2])
                    THEN {Out("file", o[1], ndirs, o[2], f.size, CountNew(TRUE), 0, ren, E(TRUE))
                            : o \in optimize_image(t.fs, temps, dest_file)}
                    ELSE {Out("file", t.fs, ndirs, temps, f.size, CountNew(TRUE), 0, ren, E(TRUE))}
               ELSE {Out(OnTransferError, t.fs, ndirs, temps, f.size, CountNew(FALSE), 0, ren,
                         E(FALSE))}
               : t \in TransferOutcomes(fs, full_path, dest_file, move_files)}

\* lines 116-155 for one file of the current folder
FileOutcomes(file) ==
    LET full_path == <<root, file>>
        Raised(sz, date) ==
            Out("crashed", fs, dirs, temps, sz, 0, 0, 0,
                Entry(full_path, "Raised", full_path, FALSE, FALSE, HashNone, HashNone, date))
    IN  IF full_path \notin DOMAIN fs \/ fs[full_path].broken
        THEN {Raised(0, ParsedNone)}                       \* os.path.getsize raises
        ELSE LET f == fs[full_path]
                 date_taken == get_exif_datetime(f)
             IN  IF date_taken = RaisedValueError          \* lines 122-124
                 THEN {Out("file", fs, dirs, temps, f.size, 0, 0, 0,
                           Entry(full_path, "NoDate", full_path, FALSE, FALSE, HashNone,
                                 HashNone, date_taken))}
                 ELSE IF date_taken = RaisedTypeError
                 THEN {Raised(f.size, date_taken)}
                 ELSE (IF MakedirsMayRaise(date_taken) THEN {Raised(f.size, date_taken)} ELSE {})
                      \cup PlaceOutcomes(file, f, Bucket(dest_dir, date_taken),
                                         dirs \cup {YearDir(dest_dir, date_taken),
                                                    Bucket(dest_dir, date_taken)})

(***************************************************************************)
(* Actions.                                                                *)
(***************************************************************************)
\* lines 65-89: create the destination, count the folders, zero the counters
Scan ==
    /\ pc = "start"
    /\ dirs' = dirs \cup {dest_dir}
    /\ exclude_dirs' = {Abspath(d) : d \in exclude_dirs}
    /\ total_folders' = CountFolders(dirs', exclude_dirs')
    /\ processed_folders' = 0 /\ total_files' = 0 /\ total_new_files' = 0
    /\ total_skipped_files' = 0 /\ total_renamed_files' = 0 /\ total_size' = 0
    /\ pc' = "source" /\ src_i' = 1
    /\ UNCHANGED <<config, fs, temps, stop_processing, stack, root, files, reported, hist, sig_at>>

\* a missing source ends the run
OnMissingSourceAbort == "returned"

\* line 94: continue, the loop goes on to the next source
OnMissingSource == "source"

\* lines 91-94, and the end of the loop over source_dirs
NextSource ==
    /\ pc = "source"
    /\ IF src_i > Len(source_dirs)
       THEN pc' = "report" /\ UNCHANGED <<src_i, stack>>
       ELSE IF source_dirs[src_i] \notin dirs
       THEN pc' = OnMissingSource /\ src_i' = src_i + 1 /\ UNCHANGED stack
       ELSE pc' = "folder" /\ stack' = <<source_dirs[src_i]>> /\ UNCHANGED src_i
    /\ UNCHANGED <<config, exclude_dirs, disk, stop_processing, root, files, counters, reported, hist, sig_at>>

\* lines 96-109: os.walk yields the next folder, listed as it is reached
NextFolder ==
    /\ pc = "folder"
    /\ IF stack = <<>>
       THEN /\ pc' = "source" /\ src_i' = src_i + 1
            /\ UNCHANGED <<stack, root, files, processed_folders>>
       ELSE LET r == Head(stack)
                image_files == {nm \in {p[2] : p \in {q \in DOMAIN fs : q[1] = r}} : IsImageName(nm)}
            IN  IF stop_processing
                THEN pc' = "returned" /\ UNCHANGED <<src_i, stack, root, files, processed_folders>>
                ELSE /\ \E sub \in Orders(Children(dirs, r)) : stack' = sub \o Tail(stack)
                     /\ IF Excluded(exclude_dirs, r) \/ image_files = {}
                        THEN pc' = "folder"
                             /\ UNCHANGED <<src_i, root, files, processed_folders>>
                        ELSE /\ pc' = "file" /\ root' = r
                             /\ processed_folders' = processed_folders + 1
                             /\ files' \in Orders(image_files)
                             /\ UNCHANGED src_i
    /\ UNCHANGED <<config, exclude_dirs, disk, stop_processing, total_folders, total_files,
                   total_new_files, total_skipped_files, total_renamed_files, total_size,
                   reported, hist, sig_at>>

\* lines 111-114: the head of the loop over image_files
NextFile ==
    /\ pc = "file"
    /\ IF files = <<>> THEN pc' = "folder"
       ELSE IF stop_processing THEN pc' = "returned"
       ELSE pc' = "body"
    /\ UNCHANGED <<config, exclude_dirs, disk, stop_processing, src_i, stack, root, files,
                   counters, reported, hist, sig_at>>

\* lines 116-155 for the file at the head of files
ProcessFile ==
    /\ pc = "body"
    /\ \E r \in FileOutcomes(Head(files)) :
         /\ pc' = r.pc /\ fs' = r.fs /\ dirs' = r.dirs /\ temps' = r.temps
         /\ total_files' = total_files + 1
         /\ total_size' = total_size + r.size
         /\ total_new_files' = total_new_files + r.new
         /\ total_skipped_files' = total_skipped_files + r.skip
         /\ total_renamed_files' = total_renamed_files + r.ren
         /\ hist' = Append(hist, r.entry)
    /\ files' = Tail(files)
    /\ UNCHANGED <<config, exclude_dirs, stop_processing, src_i, stack, root, total_folders,
                   processed_folders, reported, sig_at>>

\* lines 157-165
Report ==
    /\ pc = "report"
    /\ reported' = reported + 1
    /\ pc' = "done"
    /\ UNCHANGED <<config, exclude_dirs, disk, stop_processing, src_i, stack, root, files,
                   counters, hist, sig_at>>

\* a handler that flips the flag
ToggleFlag(flag) == ~flag

\* line 25: stop_processing = True
SetFlag(flag) == TRUE

\* signal_handler, lines 22-25: SIGINT arrives while organize_photos runs
signal_handler ==
    /\ pc \notin Terminal
    /\ stop_processing' = SetFlag(stop_processing)
    /\ sig_at' = IF sig_at = <<>> THEN <<Len(hist), pc, processed_folders>> ELSE sig_at
    /\ UNCHANGED <<config, exclude_dirs, disk, position, counters, reported, hist>>

Next == Scan \/ NextSource \/ NextFolder \/ NextFile \/ ProcessFile \/ Report \/ signal_handler

(***************************************************************************)
(* Initial states: the arguments and the files on disk before the run.     *)
(***************************************************************************)
A_JPG == Name("a", 0, ".jpg")
B_NEF == Name("b", 0, ".NEF")
C_TXT == Name("c", 0, ".txt")

\* an image with DateTimeOriginal of date 1 (its mtime is later)
KExif(c) == FileRec(c, OrigSize, TRUE, FALSE, TRUE, << <<"DateTimeOriginal", 1>> >>, NowDate)
\* a file Pillow cannot identify, dated by its mtime
KMtime(c, d) == FileRec(c, OrigSize, TRUE, FALSE, FALSE, <<>>, d)
\* a file the process may not read (open raises PermissionError)
KUnread(c) == FileRec(c, OrigSize, FALSE, FALSE, TRUE, << <<"DateTimeOriginal", NumDates>> >>, 1)
\* an image whose DateTime tag holds a value that is not a str
KNotText == FileRec(1, OrigSize, TRUE, FALSE, TRUE, << <<"DateTime", NotText>> >>, 1)
\* an image without capture tags whose mtime fromtimestamp rejects
KOutOfRange == FileRec(1, OrigSize, TRUE, FALSE, TRUE, <<>>, OutOfRange)
\* a dangling symbolic link
KBroken == FileRec(1, 0, FALSE, TRUE, FALSE, <<>>, 1)
\* a text file
KText == FileRec(1, OrigSize, TRUE, FALSE, FALSE, <<>>, 1)

SourceKinds ==
    {KExif(c) : c \in Contents} \cup {KMtime(1, d) : d \in Dates}
    \cup {KUnread(c) : c \in Contents} \cup {KNotText, KOutOfRange, KBroken}
PlainKinds == {KExif(c) : c \in Contents} \cup {KUnread(1)}
\* a content no source file holds
OtherContent == NumContents + 1
DestKinds == {KExif(1), KExif(OtherContent), KUnread(1)}

Slot(path, kinds) == {{}} \cup {{<<path, k>>} : k \in kinds}
MkFs(slots) == [p \in {s[1] : s \in slots} |-> (CHOOSE s \in slots : s[1] = p)[2]]

InitRun ==
    /\ stop_processing = FALSE
    /\ pc = "start" /\ src_i = 0 /\ stack = <<>> /\ root = <<>> /\ files = <<>>
    /\ total_folders = 0 /\ processed_folders = 0 /\ total_files = 0
    /\ total_new_files = 0 /\ total_skipped_files = 0 /\ total_renamed_files = 0
    /\ total_size = 0 /\ reported = 0
    /\ hist = <<>> /\ sig_at = <<>> /\ temps = {}
    /\ fs0 = fs

\* the files before a run: a.jpg in /a, a.jpg (and b.NEF) in /a/b, a.jpg and
\* a_copy.jpg in the bucket of date 1 of the destination, text files beside them
InitDisk(dest, akinds, bkinds, dkinds, ekinds) ==
    \E a \in Slot(<<SrcRoot, A_JPG>>, akinds),
       b \in Slot(<<SubB, A_JPG>>, bkinds)
                \cup {{<<<<SubB, A_JPG>>, KExif(1)>>, <<<<SubB, B_NEF>>, KMtime(1, 1)>>}},
       d \in Slot(<<Bucket(dest, 1), A_JPG>>, dkinds),
       e \in Slot(<<Bucket(dest, 1), CopyName(A_JPG)>>, ekinds) :
      /\ fs = MkFs(a \cup b \cup d \cup e
                   \cup {<<<<SrcRoot, C_TXT>>, KText>>, <<<<SubBC, C_TXT>>, KText>>})
      /\ dirs = {SrcRoot, SubB, SubBC}
                \cup (IF d \cup e = {} THEN {}
                      ELSE {dest, YearDir(dest, 1), Bucket(dest, 1)})

\* the destination outside the source tree
Init ==
    /\ source_dirs = <<MissingSrc, SrcRoot>>
    /\ dest_dir = DestOut
    /\ exclude_dirs \in {{}, {SubB \o <<"/">>}}
    /\ move_files \in BOOLEAN
    /\ optimize \in BOOLEAN
    /\ InitDisk(DestOut, SourceKinds, PlainKinds, DestKinds, {KExif(OtherContent)})
    /\ InitRun

\* the destination inside the source tree:
\* organize_photos(["/a", "/m"], "/a/d", exclude_dirs=["/a/bc"]) in copy mode
InitNested ==
    /\ source_dirs = <<SrcRoot, MissingSrc>>
    /\ dest_dir = DestIn
    /\ exclude_dirs = {SubBC}
    /\ move_files = FALSE
    /\ optimize = FALSE
    /\ InitDisk(DestIn, {KExif(c) : c \in Contents} \cup {KMtime(1, d) : d \in Dates},
                {KExif(1)}, {KExif(OtherContent)}, {KExif(OtherContent)})
    /\ InitRun


\* the values a capture tag can hold, and the EXIF blocks: any of the three
\* capture tags, each at most once, stored in any order
TagValues == Dates \cup {BadText, NotText}
TagBlocks ==
    UNION {UNION {{[i \in DOMAIN o |-> <<o[i], v[i]>>] : v \in [DOMAIN o -> TagValues]}
                  : o \in Orders(T)}
           : T \in SUBSET DateTags}

\* one file /a/a.jpg with any EXIF block and any mtime, readable as an image or not
InitDate ==
    /\ source_dirs = <<SrcRoot, MissingSrc>>
    /\ dest_dir = DestOut
    /\ exclude_dirs = {}
    /\ move_files = FALSE
    /\ optimize = FALSE
    /\ \E tg \in TagBlocks, mt \in Dates \cup {OutOfRange},
          k \in {<<TRUE, TRUE>>, <<TRUE, FALSE>>, <<FALSE, TRUE>>} :
         fs = MkFs({<<<<SrcRoot, A_JPG>>, FileRec(1, OrigSize, k[1], FALSE, k[2], tg, mt)>>})
    /\ dirs = {SrcRoot}
    /\ InitRun

Spec == Init /\ [][Next]_vars
SpecNested == InitNested /\ [][Next]_vars
SpecDate == InitDate /\ [][Next]_vars

(***************************************************************************)
(* Vocabulary of the properties.                                           *)
(***************************************************************************)
InSources(d) == \E i \in 1..Len(source_dirs) :
                   d = source_dirs[i] \/ StartsWith(d, source_dirs[i] \o <<"/">>)

\* the image files the processing pass is given: under a source, not excluded
SourceImages0 ==
    {p \in DOMAIN fs0 : /\ IsImageName(p[2]) /\ InSources(p[1])
                        /\ ~Excluded({Abspath(x) : x \in exclude_dirs}, p[1])}

Transferred(e) == e.decision \in {"New", "RenameTo"} /\ e.ok
TransferFailed(e) == e.decision \in {"New", "RenameTo"} /\ ~e.ok
HasContent(files_, c) == \E q \in DOMAIN files_ : files_[q].content = c

\* the program is started a second time with the same arguments, after a
\* copy-mode run that reached its report with every transfer successful:
\* a new process (flag False, counters zero) on the disk the first run left
Rerun ==
    /\ pc = "done" /\ reported = 1 /\ ~move_files
    /\ \A i \in DOMAIN hist : ~TransferFailed(hist[i])
    /\ stop_processing' = FALSE
    /\ pc' = "start" /\ src_i' = 0 /\ stack' = <<>> /\ root' = <<>> /\ files' = <<>>
    /\ total_folders' = 0 /\ processed_folders' = 0 /\ total_files' = 0
    /\ total_new_files' = 0 /\ total_skipped_files' = 0 /\ total_renamed_files' = 0
    /\ total_size' = 0
    /\ hist' = <<>> /\ sig_at' = <<>>
    /\ fs0' = fs
    /\ UNCHANGED <<source_dirs, dest_dir, exclude_dirs, move_files, optimize, disk, reported>>

\* copy mode; a.jpg in /a and in /a/b, the bucket empty or holding a.jpg
InitRerun ==
    /\ source_dirs = <<SrcRoot, MissingSrc>>
    /\ dest_dir = DestOut
    /\ exclude_dirs = {}
    /\ move_files = FALSE
    /\ optimize \in BOOLEAN
    /\ InitDisk(DestOut, {KExif(c) : c \in Contents}, {KExif(1)},
                {KExif(1), KExif(OtherContent)}, {})
    /\ InitRun

NextRerun == Next \/ Rerun
SpecRerun == InitRerun /\ [][NextRerun]_vars

(***************************************************************************)
(* C1.  Every content on disk before the run (source or destination) is    *)
(* still at some path when the run has ended.  Stated for the runs that    *)
(* reach the final report without optimization and without a transfer      *)
(* that raised, where only completed transfers write files.  The code      *)
(* replaces an existing "<base>_copy<ext>": this is violated.              *)
(***************************************************************************)
C1_NoContentLost ==
    (pc = "done" /\ ~optimize /\ \A i \in DOMAIN hist : ~TransferFailed(hist[i])) =>
        \A p \in DOMAIN fs0 : HasContent(fs, fs0[p].content)

(***************************************************************************)
(* C5.  Every run that ends, by cancellation or by exhausting the sources, *)
(* has printed the final report exactly once.  The code returns from       *)
(* organize_photos at lines 99 and 114 without reporting: violated.        *)
(***************************************************************************)
C5_ReportAlwaysEmitted ==
    (pc \in {"done", "returned"}) => reported = 1

(***************************************************************************)
(* C7.  Whenever the candidate path is occupied and at least one of the    *)
(* two hashes is None, the decision is RenameTo, never Skip.  The code     *)
(* compares None == None as equal: violated when both hashes fail.         *)
(***************************************************************************)
C7_UnreadableNeverSkips ==
    \A i \in DOMAIN hist :
        (hist[i].occupied /\ (hist[i].src_hash = HashNone \/ hist[i].dest_hash = HashNone))
            => hist[i].decision = "RenameTo"

(***************************************************************************)
(* C10.  total_renamed_files counts the successful transfers to a          *)
(* RenameTo path, so it never exceeds total_new_files.  The code           *)
(* increments it at line 142, before the transfer is tried: violated when  *)
(* that transfer raises.                                                   *)
(***************************************************************************)
C10_RenamedCountsSuccesses ==
    /\ total_renamed_files <= total_new_files
    /\ total_renamed_files =
         Cardinality({i \in DOMAIN hist : hist[i].decision = "RenameTo" /\ hist[i].ok})

(***************************************************************************)
(* C2.  Idempotence on already-organized files.                            *)
(***************************************************************************)
\* every source image has its name and content at its bucket before the run
\* (hashable: and both files can be hashed)
AlreadyOrganized(hashable) ==
    \A p \in SourceImages0 :
        LET f == fs0[p]
            d == get_exif_datetime(f)
            q == <<Bucket(dest_dir, d), p[2]>>
        IN  /\ ~f.broken /\ d \in Dates
            /\ q \in DOMAIN fs0 /\ fs0[q].content = f.content
            /\ hashable => (f.readable /\ fs0[q].readable)

NothingButSkips ==
    /\ fs = fs0
    /\ total_new_files = 0 /\ total_renamed_files = 0
    /\ total_skipped_files = total_files

\* C2 as claimed: when every source image file has a file of the same name and
\* content at its bucket, a run transfers nothing, changes no file, leaves
\* new and renamed at 0 and skipped equals files seen.  Violated when one of
\* the two files cannot be hashed: the code then transfers to the _copy path.
C2_IdempotentAsClaimed ==
    (pc = "done" /\ AlreadyOrganized(FALSE)) => NothingButSkips

\* C2 amended: the same, for files that both can be hashed; it holds at every
\* point of the run, not only at its end.
C2_IdempotentWhenHashable ==
    AlreadyOrganized(TRUE) => NothingButSkips

\* two already-organized files were seen and skipped, and the run reported
C2_Witness ==
    /\ pc = "done" /\ AlreadyOrganized(TRUE)
    /\ total_files = 2 /\ total_skipped_files = 2

(***************************************************************************)
(* C3.  At the end of a run that reached the report without optimization   *)
(* and without a transfer that raised, every source file that met an occupied name of different content and    *)
(* was transferred has its content at <base>_copy<ext> of its bucket, and  *)
(* the occupying file is as it was when met.  Violated when two source     *)
(* files collide on one name and bucket: the second replaces the first's   *)
(* renamed copy (the gap of C1).                                           *)
(***************************************************************************)
C3_EveryCollisionKeepsItsCopy ==
    (pc = "done" /\ ~optimize /\ \A k \in DOMAIN hist : ~TransferFailed(hist[k])) =>
        \A i \in DOMAIN hist :
            LET e == hist[i]
                occupant == <<e.dest[1], e.src[2]>>
            IN  (/\ e.occupied /\ e.ok
                 /\ e.src_hash # HashNone /\ e.dest_hash # HashNone
                 /\ e.src_hash # e.dest_hash)
                => /\ e.dest = <<e.dest[1], CopyName(e.src[2])>>
                   /\ e.dest \in DOMAIN fs /\ <<fs[e.dest].content>> = e.src_hash
                   /\ occupant \in DOMAIN fs /\ <<fs[occupant].content>> = e.dest_hash

(***************************************************************************)
(* C4.  In copy mode every file that was under a source before the run is  *)
(* at the same path with the same content at every point of the run        *)
(* (stated for runs without optimization and without a failed transfer).   *)
(* Violated when the destination lies inside a source tree: a source file  *)
(* at <bucket>/<base>_copy<ext> is replaced by a colliding transfer (the   *)
(* gap of C1).                                                             *)
(***************************************************************************)
C4_CopyModeKeepsSources ==
    (~move_files /\ ~optimize /\ \A k \in DOMAIN hist : ~TransferFailed(hist[k])) =>
        \A p \in DOMAIN fs0 :
            InSources(p[1]) => (p \in DOMAIN fs /\ fs[p].content = fs0[p].content)

C8_MoveRemovesOnlyOnSuccess ==
    [][ /\ (Len(hist') = Len(hist)) => fs' = fs
        /\ (Len(hist') = Len(hist) + 1) =>
              LET e == hist'[Len(hist')]
              IN  /\ (e.decision = "Skip") => fs' = fs
                  /\ \A p \in DOMAIN fs \ DOMAIN fs' :
                        /\ move_files /\ p = e.src /\ Transferred(e)
                        /\ e.dest \in DOMAIN fs'
      ]_vars

\* in move mode one file was skipped and is still at its source path, and
\* another was moved away to the destination
C8_Witness ==
    /\ move_files
    /\ \E i, j \in DOMAIN hist :
         /\ hist[i].decision = "Skip" /\ hist[i].src \in DOMAIN fs
         /\ fs[hist[i].src] = fs0[hist[i].src]
         /\ Transferred(hist[j]) /\ hist[j].src \notin DOMAIN fs /\ hist[j].dest \in DOMAIN fs

(***************************************************************************)
(* C9.  A transfer that raised does not end the run: the file is counted   *)
(* in total_files and not in total_new_files, the run is not aborted by    *)
(* it, and a run that reaches its end has started every source image file  *)
(* and printed the report.                                                 *)
(***************************************************************************)
C9_TransferFailureContinues ==
    /\ total_files = Len(hist)
    /\ total_new_files = Cardinality({i \in DOMAIN hist : hist[i].ok})
    /\ \A i \in DOMAIN hist :
          (TransferFailed(hist[i]) /\ i = Len(hist)) => pc # "crashed"
    /\ (pc = "done") =>
          /\ reported = 1
          /\ \A p \in SourceImages0 : \E i \in DOMAIN hist : hist[i].src = p

\* a transfer raised, a later file was transferred, and the report was printed
C9_Witness ==
    /\ pc = "done" /\ reported = 1
    /\ \E i, j \in DOMAIN hist : i < j /\ TransferFailed(hist[i]) /\ Transferred(hist[j])

(***************************************************************************)
(* C11.  The counters are exact and monotone at every point of a run: no   *)
(* counter decreases in a step; total_new_files is the number of transfers *)
(* that returned, total_skipped_files the number of Skip decisions,        *)
(* total_files the number of files started; new + skipped <= seen, with    *)
(* equality exactly when no started file failed (a transfer that raised,   *)
(* a date that could not be resolved, an error that ended the run).        *)
(***************************************************************************)
StatsExact ==
    /\ total_files = Len(hist)
    /\ total_new_files = Cardinality({i \in DOMAIN hist : Transferred(hist[i])})
    /\ total_skipped_files = Cardinality({i \in DOMAIN hist : hist[i].decision = "Skip"})
    /\ total_new_files + total_skipped_files <= total_files
    /\ (total_new_files + total_skipped_files = total_files)
         <=> (\A i \in DOMAIN hist : Transferred(hist[i]) \/ hist[i].decision = "Skip")

C11_StatsExactAndMonotone ==
    StatsExact /\
    [][ /\ StatsExact'
        /\ total_files' >= total_files /\ total_new_files' >= total_new_files
        /\ total_skipped_files' >= total_skipped_files
        /\ total_renamed_files' >= total_renamed_files
        /\ processed_folders' >= processed_folders /\ total_size' >= total_size
        /\ (pc # "start") => total_folders' = total_folders
      ]_vars

\* cancellation was observed after one file was transferred, one skipped and
\* one failed
C11_Witness ==
    /\ pc = "returned" /\ total_files = 3
    /\ total_new_files = 1 /\ total_skipped_files = 1

(***************************************************************************)
(* C12.  Date resolution is total.  For a file that cannot be opened as an *)
(* image, holds no capture tag, or whose capture tags hold no value of a   *)
(* recognised format (whatever the type of the value), get_exif_datetime   *)
(* returns the modification time, and the file is placed in the bucket of  *)
(* that time.  Stated for the files whose mtime is a valid time.  A tag    *)
(* value that is not a str makes strptime raise TypeError, which nothing   *)
(* catches: violated.                                                      *)
(***************************************************************************)
NoParseableTag(f) ==
    \/ ~f.readable
    \/ ~f.image
    \/ \A i \in DOMAIN f.tags : f.tags[i][1] \notin DateTags \/ f.tags[i][2] \notin Dates

C12_DateResolutionTotal ==
    \A i \in DOMAIN hist :
        LET e == hist[i]
            f == fs0[e.src]
        IN  (e.date # ParsedNone /\ NoParseableTag(f) /\ f.mtime \in Dates) =>
                /\ e.date = f.mtime
                /\ e.decision # "NoDate"
                /\ e.decision \in {"New", "Skip", "RenameTo"}
                     => e.dest[1] = Bucket(dest_dir, f.mtime)

(***************************************************************************)
(* C13.  When an image holds parseable capture tags, the resolved date is  *)
(* that of the first parseable one in the priority DateTimeOriginal,       *)
(* DateTimeDigitized, DateTime, whatever the order in which the tags are   *)
(* stored.  Stated for EXIF blocks whose values are all str.  The code     *)
(* returns the first parseable tag in stored order: violated.              *)
(***************************************************************************)
TagPriority == <<"DateTimeOriginal", "DateTimeDigitized", "DateTime">>

RECURSIVE ByPriority(_, _)
ByPriority(tags, names) ==
    IF names = <<>> THEN ParsedNone
    ELSE LET here == {i \in DOMAIN tags : tags[i][1] = Head(names) /\ tags[i][2] \in Dates}
         IN IF here # {} THEN tags[CHOOSE i \in here : TRUE][2]
            ELSE ByPriority(tags, Tail(names))

C13_DateByPriority ==
    \A i \in DOMAIN hist :
        LET e == hist[i]
            f == fs0[e.src]
        IN  (/\ e.date # ParsedNone /\ f.readable /\ f.image
             /\ \A j \in DOMAIN f.tags : f.tags[j][2] # NotText
             /\ ByPriority(f.tags, TagPriority) # ParsedNone) =>
                e.date = ByPriority(f.tags, TagPriority)

(***************************************************************************)
(* C14.  optimize_image never harms the file it is given.  In every step   *)
(* that transfers a file and optimizes it, the file is at its destination  *)
(* afterwards, is not larger than the file transferred, and is that file   *)
(* unchanged unless a complete re-encoding of it that is strictly smaller  *)
(* took its place.                                                         *)
(***************************************************************************)
C14_OptimizeNeverHarms ==
    [][ (/\ optimize /\ Len(hist') = Len(hist) + 1
         /\ Transferred(hist'[Len(hist')])
         /\ IsOptimizable(hist'[Len(hist')].dest[2])) =>
            LET e == hist'[Len(hist')]
                before == fs[e.src]
            IN  /\ e.dest \in DOMAIN fs'
                /\ fs'[e.dest].size <= before.size
                /\ \/ fs'[e.dest] = before
                   \/ /\ fs'[e.dest].size < before.size
                      /\ fs'[e.dest] = Reencoded(before, fs'[e.dest].size)
      ]_vars

\* one transferred file was replaced by its smaller re-encoding, another was
\* optimized and kept as it was
C14_Witness ==
    /\ optimize
    /\ \E i, j \in DOMAIN hist :
         /\ Transferred(hist[i]) /\ Transferred(hist[j])
         /\ IsOptimizable(hist[i].dest[2]) /\ IsOptimizable(hist[j].dest[2])
         /\ hist[i].dest \in DOMAIN fs /\ hist[j].dest \in DOMAIN fs
         /\ fs[hist[i].dest] = Reencoded(fs0[hist[i].src], 1)
         /\ fs[hist[j].dest] = fs0[hist[j].src]

(***************************************************************************)
(* C15.  The scanning pass and the processing pass leave out exactly the   *)
(* excluded directories and what is nested beneath them.  A directory of a *)
(* source that is neither (such as /a/bc when /a/b is excluded) is counted *)
(* by the scan, and its images are processed.  The code tests the path     *)
(* text with startswith, which also matches the sibling /a/bc: violated.   *)
(***************************************************************************)
NestedIn(d, ex) == d = ex \/ StartsWith(d, ex \o <<"/">>)

KeptDirs == {d \in dirs : /\ InSources(d)
                          /\ \A ex \in exclude_dirs : ~NestedIn(d, Abspath(ex))}

C15_ExcludesOnlyNested ==
    /\ (pc # "start") => total_folders = Cardinality(KeptDirs)
    /\ (pc = "done") =>
          \A p \in DOMAIN fs0 :
              (IsImageName(p[2]) /\ p[1] \in KeptDirs) =>
                  \E i \in DOMAIN hist : hist[i].src = p

(***************************************************************************)
(* C16.  A source path that is not an existing directory is passed over:   *)
(* the step that meets it changes no file, no directory and no counter and *)
(* goes on to the next source; the scan counts the folders of the existing *)
(* sources only; and a run that reaches its end has started every image of *)
(* the existing sources, whether they come before or after the missing one.*)
(***************************************************************************)
AtMissingSource ==
    /\ pc = "source" /\ src_i \in 1..Len(source_dirs)
    /\ source_dirs[src_i] \notin dirs

ExistingSources == {i \in 1..Len(source_dirs) : source_dirs[i] \in dirs}

C16_MissingSourceSkipped ==
    [][ /\ (AtMissingSource /\ <<pc, src_i>>' # <<pc, src_i>>) =>
              /\ pc' = "source" /\ src_i' = src_i + 1
              /\ UNCHANGED <<disk, counters, hist, reported>>
        /\ (pc = "start" /\ pc' # "start") =>
              total_folders' = Cardinality(UNION {{d \in Subtree(dirs', source_dirs[i]) :
                                                     ~Excluded(exclude_dirs', d)}
                                                  : i \in ExistingSources'})
        /\ (pc' = "done") => \A p \in SourceImages0 : \E i \in DOMAIN hist' : hist'[i].src = p
      ]_vars

\* the run passed the missing source, transferred a file of the existing one
\* and reached its end
C16_Witness ==
    /\ pc = "done" /\ total_new_files >= 1
    /\ \E i \in 1..Len(source_dirs) : source_dirs[i] \notin dirs

(***************************************************************************)
(* C17.  No failure of a per-file step ends the run: when reading the size,*)
(* resolving the date or creating the bucket directory fails for a file,   *)
(* the loop goes on with the next file and the final report is reached.    *)
(* In the code os.path.getsize (line 118) and os.makedirs (line 128) are   *)
(* outside every try block, and a TypeError of the date leaves line 121:   *)
(* the exception ends organize_photos.  Violated.                          *)
(***************************************************************************)
C17_PerFileFailureNotFatal ==
    /\ pc # "crashed"
    /\ \A i \in DOMAIN hist : hist[i].decision # "Raised"

(***************************************************************************)
(* C18.  Copy-mode runs are idempotent as a whole: a second run with the   *)
(* same arguments over unchanged sources, started after a complete first   *)
(* run, creates or replaces no destination file and reports 0 new and 0    *)
(* renamed files.  Stated for runs without optimization in which no        *)
(* transfer raises.  A file the first run placed at "<base>_copy<ext>"     *)
(* collides again in the second run and is copied again: violated.         *)
(***************************************************************************)
SecondRun == reported = 2 \/ (reported = 1 /\ pc # "done")

C18_SecondRunChangesNothing ==
    (SecondRun /\ ~optimize /\ \A i \in DOMAIN hist : ~TransferFailed(hist[i]))
        => /\ total_new_files = 0 /\ total_renamed_files = 0
           /\ fs = fs0

(***************************************************************************)
(* C19.  The folder count of the scanning pass bounds the processing pass: *)
(* processed_folders <= total_folders in every state, wherever the         *)
(* destination lies.  With the destination inside a source tree the bucket *)
(* directories the run creates are walked and counted as processed, but    *)
(* were not there when the scan counted: violated.                         *)
(***************************************************************************)
C19_ProcessedWithinScanned ==
    processed_folders <= total_folders

(***************************************************************************)
(* C20.  optimize_image leaves no temporary file: whenever it has returned,*)
(* on every path, no file is at image_path + ".opt".  The except clause of *)
(* lines 180-181 passes without removing a temporary file that was already *)
(* created: violated.                                                      *)
(***************************************************************************)
C20_NoTempLeft ==
    temps = {}

====
